---------------------------- MODULE Spec2Model ----------------------------
(***************************************************************************)
(* Model of generate_insert_sql.py: the conversion of the lottery CSV      *)
(* export into a file of SQL INSERT statements.                            *)
(*                                                                         *)
(* Text is modelled as a sequence of one-character strings, so that        *)
(* trimming, quote doubling, quote stripping and integer parsing are       *)
(* computed character by character as the Python code computes them.       *)
(***************************************************************************)
EXTENDS Integers, Sequences, FiniteSets, TLC

(***************************************************************************)
(* Bounds of the model.                                                    *)
(***************************************************************************)
\* longest argument text handed to parse_integer / escape_sql_string alone
MaxLen == 4
\* most data rows (header excluded) of a CSV file with several rows
MaxRows == 3
\* most fields of a data row (the schema has 21; one more is a surplus field)
MaxFields == 22

(***************************************************************************)
(* Text.                                                                   *)
(***************************************************************************)
\* the NULL marker: the Python string 'NULL'
NULL == <<"N", "U", "L", "L">>

\* the characters str.strip() removes
Whitespace == {" ", "\t"}

DigitChar == <<"0", "1", "2", "3", "4", "5", "6", "7", "8", "9">>

Digits == {DigitChar[i] : i \in 1..10}

DigitVal(c) == (CHOOSE i \in 1..10 : DigitChar[i] = c) - 1

\* a Python value that is a string
Str(s) == [none |-> FALSE, s |-> s]

\* the Python value None (an absent value)
None == [none |-> TRUE, s |-> <<>>]

RECURSIVE lstrip(_)
lstrip(s) ==
    IF s # <<>> /\ Head(s) \in Whitespace THEN lstrip(Tail(s)) ELSE s

RECURSIVE rstrip(_)
rstrip(s) ==
    IF s # <<>> /\ s[Len(s)] \in Whitespace
    THEN rstrip(SubSeq(s, 1, Len(s) - 1))
    ELSE s

\* str.strip()
strip(s) == rstrip(lstrip(s))

\* str.replace(old, new) for a one-character old
RECURSIVE replace(_, _, _)
replace(s, old, new) ==
    IF s = <<>> THEN <<>>
    ELSE (IF Head(s) = old THEN new ELSE <<Head(s)>>) \o replace(Tail(s), old, new)

\* the digits of an integer literal, left to right: a digit extends the
\* number, an underscore is accepted only between two digits; -1 when the
\* text is not a literal
RECURSIVE ScanDigits(_, _, _)
ScanDigits(b, acc, prevDigit) ==
    IF b = <<>> THEN (IF prevDigit THEN acc ELSE -1)
    ELSE IF Head(b) \in Digits
         THEN ScanDigits(Tail(b), acc * 10 + DigitVal(Head(b)), TRUE)
    ELSE IF Head(b) = "_" /\ prevDigit
         THEN ScanDigits(Tail(b), acc, FALSE)
    ELSE -1

\* int(text): the integer, or ValueError raised
int(text) ==
    LET t    == strip(text)
        sgn  == IF t # <<>> /\ Head(t) \in {"+", "-"} THEN Head(t) ELSE ""
        body == IF sgn # "" THEN Tail(t) ELSE t
        v    == ScanDigits(body, 0, FALSE)
    IN  IF v < 0 THEN [raised |-> TRUE, val |-> 0]
        ELSE [raised |-> FALSE, val |-> IF sgn = "-" THEN 0 - v ELSE v]

\* str(n) of a natural number
RECURSIVE NatText(_)
NatText(n) ==
    IF n < 10 THEN <<DigitChar[n + 1]>>
    ELSE NatText(n \div 10) \o <<DigitChar[(n % 10) + 1]>>

\* str(n) of an integer
IntText(n) == IF n < 0 THEN <<"-">> \o NatText(0 - n) ELSE NatText(n)

(***************************************************************************)
(* escape_sql_string and parse_integer.                                    *)
(***************************************************************************)
\* escape_sql_string that leaves double quotes in place
escape_sql_string_keeps_dquote(value) ==
    IF value.none \/ value.s = <<>> THEN NULL
    ELSE <<"'">> \o replace(value.s, "'", <<"'", "'">>) \o <<"'">>

escape_sql_string(value) ==
    IF value.none \/ value.s = <<>> THEN NULL
    ELSE <<"'">>
         \o replace(replace(value.s, "'", <<"'", "'">>), "\"", <<>>)
         \o <<"'">>

\* what parse_integer hands back: the NULL marker, an integer, or an
\* exception that leaves the function
IntNull == [raised |-> FALSE, null |-> TRUE, int |-> 0]

IntOf(n) == [raised |-> FALSE, null |-> FALSE, int |-> n]

IntRaised == [raised |-> TRUE, null |-> FALSE, int |-> 0]

\* parse_integer without the try/except around int()
parse_integer_no_except(value) ==
    IF value.none \/ value.s = <<>> \/ strip(value.s) = <<>> THEN IntNull
    ELSE LET r == int(strip(value.s))
         IN  IF r.raised THEN IntRaised ELSE IntOf(r.val)

parse_integer(value) ==
    IF value.none \/ value.s = <<>> \/ strip(value.s) = <<>> THEN IntNull
    ELSE LET r == int(strip(value.s))
         IN  IF r.raised THEN IntNull ELSE IntOf(r.val)

\* an f-string field {x} for the result of parse_integer or for 'NULL'
format(v) == IF v.null THEN NULL ELSE IntText(v.int)

(***************************************************************************)
(* One data row: the body of the try block of generate_insert_sql.         *)
(* A row is the list csv.reader yields: a sequence of texts.  Python's     *)
(* row[k] is row[k + 1] here.  A local variable holds the text an f-string *)
(* renders for it, or records that computing it raised.                    *)
(***************************************************************************)
\* the least number of fields of a row that is converted
MinFields == 11

Local(text) == [raised |-> FALSE, text |-> text]

Raised == [raised |-> TRUE, text |-> <<>>]

\* row[k]: IndexError when the row has no field k
subscript(row, k) ==
    IF k < Len(row) THEN Local(row[k + 1]) ELSE Raised

\* parse_integer(row[k])
int_field(row, k) ==
    IF subscript(row, k).raised THEN Raised
    ELSE LET p == parse_integer(Str(row[k + 1]))
         IN  IF p.raised THEN Raised ELSE Local(format(p))

\* the guard of a trailing field tested against the wrong length
opt_int_field_off_by_one(row, k) ==
    IF Len(row) > k - 1 THEN int_field(row, k) ELSE Local(NULL)

\* parse_integer(row[k]) if len(row) > k else 'NULL'
opt_int_field(row, k) ==
    IF Len(row) > k THEN int_field(row, k) ELSE Local(NULL)

\* escape_sql_string(row[1]) if row[1] else 'NULL'
escaped_date(row) ==
    IF subscript(row, 1).raised THEN Raised
    ELSE IF row[2] # <<>> THEN Local(escape_sql_string(Str(row[2])))
    ELSE Local(NULL)

\* the names of the local variables, in the order of the column list
Columns ==
    << "draw", "draw_date",
       "winning_number_1", "winning_number_2", "winning_number_3",
       "winning_number_4", "winning_number_5", "winning_number_6",
       "winning_number_7",
       "bonus_number_1", "bonus_number_2",
       "from_last",
       "low_count", "high_count", "odd_count", "even_count",
       "range_1_10", "range_11_20", "range_21_30", "range_31_40",
       "range_41_50" >>

\* the placeholders of the VALUES list, in order
Placeholders ==
    << "draw", "draw_date",
       "winning_number_1", "winning_number_2", "winning_number_3",
       "winning_number_4", "winning_number_5", "winning_number_6",
       "winning_number_7",
       "bonus_number_1", "bonus_number_2",
       "from_last",
       "low_count", "high_count", "odd_count", "even_count",
       "range_1_10", "range_11_20", "range_21_30", "range_31_40",
       "range_41_50" >>

LocalNames == {Columns[j] : j \in 1..Len(Columns)}

\* the local variables before the try block assigns any
Unbound == [n \in LocalNames |-> Local(<<>>)]

\* the first parsing pass: it binds the seventh field to winning_number_7
\* and the eighth to winning_number_6
first_pass(row) ==
    [Unbound EXCEPT
        !["draw"] = int_field(row, 0),
        !["draw_date"] = escaped_date(row),
        !["winning_number_1"] = int_field(row, 2),
        !["winning_number_2"] = int_field(row, 3),
        !["winning_number_3"] = int_field(row, 4),
        !["winning_number_4"] = int_field(row, 5),
        !["winning_number_5"] = int_field(row, 6),
        !["winning_number_7"] = opt_int_field(row, 7),
        !["winning_number_6"] = opt_int_field(row, 8)]

\* draw_date of the second pass: the raw field in quotes, 'NULL' when the
\* field is empty; the test against 'NULL' also catches a field that reads NULL
draw_date_of(row) ==
    IF subscript(row, 1).raised THEN Raised
    ELSE LET draw_date == IF row[2] # <<>> THEN row[2] ELSE NULL
         IN  IF draw_date # NULL
             THEN Local(<<"'">> \o draw_date \o <<"'">>)
             ELSE Local(draw_date)

\* from_last
from_last_of(row) ==
    IF Len(row) > 11 /\ row[12] # <<>> /\ strip(row[12]) # <<>>
    THEN LET from_last_str == strip(replace(row[12], "\"", <<>>))
         IN  IF from_last_str # <<>>
             THEN Local(escape_sql_string(Str(from_last_str)))
             ELSE Local(NULL)
    ELSE Local(NULL)

\* a second pass that does not assign winning_number_6 and winning_number_7
\* again
second_pass_keeps_first(row, locals) ==
    [locals EXCEPT
        !["draw"] = int_field(row, 0),
        !["draw_date"] = draw_date_of(row),
        !["winning_number_1"] = int_field(row, 2),
        !["winning_number_2"] = int_field(row, 3),
        !["winning_number_3"] = int_field(row, 4),
        !["winning_number_4"] = int_field(row, 5),
        !["winning_number_5"] = int_field(row, 6),
        !["bonus_number_1"] = int_field(row, 9),
        !["bonus_number_2"] = int_field(row, 10),
        !["from_last"] = from_last_of(row),
        !["low_count"] = opt_int_field(row, 12),
        !["high_count"] = opt_int_field(row, 13),
        !["odd_count"] = opt_int_field(row, 14),
        !["even_count"] = opt_int_field(row, 15),
        !["range_1_10"] = opt_int_field(row, 16),
        !["range_11_20"] = opt_int_field(row, 17),
        !["range_21_30"] = opt_int_field(row, 18),
        !["range_31_40"] = opt_int_field(row, 19),
        !["range_41_50"] = opt_int_field(row, 20)]

\* the second parsing pass: it assigns every local variable
second_pass(row, locals) ==
    [locals EXCEPT
        !["draw"] = int_field(row, 0),
        !["draw_date"] = draw_date_of(row),
        !["winning_number_1"] = int_field(row, 2),
        !["winning_number_2"] = int_field(row, 3),
        !["winning_number_3"] = int_field(row, 4),
        !["winning_number_4"] = int_field(row, 5),
        !["winning_number_5"] = int_field(row, 6),
        !["winning_number_6"] = int_field(row, 7),
        !["winning_number_7"] = int_field(row, 8),
        !["bonus_number_1"] = int_field(row, 9),
        !["bonus_number_2"] = int_field(row, 10),
        !["from_last"] = from_last_of(row),
        !["low_count"] = opt_int_field(row, 12),
        !["high_count"] = opt_int_field(row, 13),
        !["odd_count"] = opt_int_field(row, 14),
        !["even_count"] = opt_int_field(row, 15),
        !["range_1_10"] = opt_int_field(row, 16),
        !["range_11_20"] = opt_int_field(row, 17),
        !["range_21_30"] = opt_int_field(row, 18),
        !["range_31_40"] = opt_int_field(row, 19),
        !["range_41_50"] = opt_int_field(row, 20)]

\* one entry of sql_statements
Line(kind, text) ==
    [kind |-> kind, text |-> text, columns |-> <<>>, values |-> <<>>]

\* the INSERT template with from_last left out of the VALUES list
insert_sql_drops_value(locals) ==
    [kind    |-> "insert",
     text    |-> "INSERT INTO lottery_result (columns) VALUES (values);",
     columns |-> Columns,
     values  |-> [j \in 1..(Len(Placeholders) - 1) |->
                    locals[Placeholders[IF j < 12 THEN j ELSE j + 1]].text]]

\* the INSERT template filled in
insert_sql(locals) ==
    [kind    |-> "insert",
     text    |-> "INSERT INTO lottery_result (columns) VALUES (values);",
     columns |-> Columns,
     values  |-> [j \in 1..Len(Placeholders) |-> locals[Placeholders[j]].text]]

\* the try block up to the statement: the statement, or an exception
try_body(row) ==
    LET first  == first_pass(row)
        locals == second_pass(row, first)
    IN  IF \E n \in LocalNames : first[n].raised \/ locals[n].raised
        THEN [raised |-> TRUE, stmt |-> Line("none", "")]
        ELSE [raised |-> FALSE, stmt |-> insert_sql(locals)]

(***************************************************************************)
(* The inputs: CSV files as csv.reader yields them, header row first.      *)
(***************************************************************************)
Header == << <<"D", "r", "a", "w">>, <<"D", "a", "t", "e">> >>

\* the row of the end-to-end example
ExampleRow ==
    << <<"5">>,
       <<"2", "0", "2", "0", "-", "0", "1", "-", "1", "5">>,
       <<"1">>, <<"2">>, <<"3">>, <<"4">>, <<"5">>, <<"6">>, <<"7">>,
       <<"8">>, <<"9">>,
       <<"\"", "3", ",", "1", ",", "2", "\"">>,
       <<"2">>, <<"3">>, <<"4">>, <<"3">>, <<"1">>, <<"2">>, <<"1">>,
       <<"1">>, <<"2">> >>

\* the first n fields of the example row, surplus fields filled with 0
Fields(n) ==
    [k \in 1..n |-> IF k <= Len(ExampleRow) THEN ExampleRow[k] ELSE <<"0">>]

\* row with field k (counted as Python counts) replaced, when it has one
With(row, k, text) ==
    IF k < Len(row) THEN [row EXCEPT ![k + 1] = text] ELSE row

\* the replacements that make the rows of a one-row file: <<field, text>>
Variants ==
    { <<0, <<"5">>>>, <<0, <<>>>>, <<0, <<"x">>>>, <<0, <<" ", "7", " ">>>>,
      <<0, <<"-", "3">>>>, <<0, <<"1", "_", "0">>>>,
      <<1, <<>>>>, <<1, NULL>>, <<1, <<"i", "t", "'", "s">>>>, <<1, <<" ">>>>,
      <<7, <<"x">>>>, <<8, <<>>>>, <<10, <<" ">>>>,
      <<11, <<>>>>, <<11, <<" ">>>>, <<11, <<"\"", " ", "\"">>>>,
      <<11, <<"a", "'", "b">>>>, <<11, <<" ", "\"", "4", "\"", " ">>>>,
      <<12, <<>>>>, <<12, <<"x">>>>, <<12, <<" ", "3", " ">>>>,
      <<20, <<"x">>>> }

RichRows ==
    {With(Fields(n), var[1], var[2]) : n \in 0..MaxFields, var \in Variants}

\* the rows of a file with several rows: too short, shortest converted and
\* full rows, told apart by their draw number
FileRows ==
    {With(Fields(n), 0, d) :
        n \in {MinFields - 1, MinFields, Len(ExampleRow)},
        d \in {<<"5">>, <<"6">>, <<"7">>}}

SeqsUpTo(S, n) == UNION {[1..k -> S] : k \in 0..n}

\* the files: empty, header only, header and rows
Files ==
    {<<>>}
    \cup {<<Header>> \o rows : rows \in SeqsUpTo(FileRows, MaxRows)}
    \cup {<<Header, r>> : r \in RichRows}

\* the texts handed to one call of parse_integer or escape_sql_string
ArgChars == {"1", "2", " ", "-", "+", "_", "a", "'", "\""}

Arguments == {None} \cup {Str(s) : s \in SeqsUpTo(ArgChars, MaxLen)}

(***************************************************************************)
(* The program.                                                            *)
(***************************************************************************)
VARIABLES
    pc,             \* where the script is
    input_exists,   \* os.path.exists(csv_file)
    csv_file,       \* the rows of the input file, header first
    all_rows,       \* the list the loop walks
    i,              \* the loop's place in all_rows (the next row, from 1)
    sql_statements, \* the accumulator
    count,          \* the record counter
    errors,         \* the per-row failures reported on the console
    output_file,    \* the output file: whether it exists, and its lines
    writes,         \* how often the output file was opened for writing
    exit_code,      \* the exit code, -1 while the script runs
    call            \* one call of a helper function on its own

vars ==
    << pc, input_exists, csv_file, all_rows, i, sql_statements, count, errors,
       output_file, writes, exit_code, call >>

NoCall ==
    [fn |-> "none", arg |-> None, done |-> FALSE, ret |-> IntNull, text |-> <<>>]

Idle ==
    /\ pc = "main"
    /\ all_rows = <<>>
    /\ i = 0
    /\ sql_statements = <<>>
    /\ count = 0
    /\ errors = 0
    /\ output_file = [exists |-> FALSE, lines |-> <<>>]
    /\ writes = 0
    /\ exit_code = -1

Init ==
    /\ Idle
    /\ input_exists \in BOOLEAN
    /\ csv_file \in (IF input_exists THEN Files ELSE {<<>>})
    /\ call = NoCall

\* list.reverse() left out
reverse_omitted(rows) == rows

\* list.reverse()
reverse(rows) == [k \in 1..Len(rows) |-> rows[Len(rows) - k + 1]]

\* the lines appended before the loop; the comment lines are Korean in the
\* source and are given here in English
Preamble ==
    << Line("comment", "-- Set for Life lottery result data insertion"),
       Line("comment", "-- INSERT statements generated from the CSV file"),
       Line("comment", "-- stored in order from draw 1"),
       Line("blank", ""),
       Line("use", "USE cool;"),
       Line("blank", ""),
       Line("comment", "-- delete existing data (optional)"),
       Line("comment", "-- DELETE FROM lottery_result;"),
       Line("blank", ""),
       Line("comment", "-- start of data insertion (from draw 1)"),
       Line("blank", "") >>

\* the trailing comment with the total
Total(n) ==
    [kind |-> "total", text |-> "-- total {count} records inserted",
     columns |-> <<>>, values |-> <<IntText(n)>>]

\* the length test that lets a row of ten fields through
too_short_off_by_one(row) == Len(row) < MinFields - 1

\* len(row) < 11
too_short(row) == Len(row) < MinFields

\* count += 1 left out
count_unchanged(n) == n

\* count += 1
increment(n) == n + 1

\* __main__: the input file does not exist
main_missing_input ==
    /\ pc = "main"
    /\ ~input_exists
    /\ pc' = "exited"
    /\ exit_code' = 1
    /\ UNCHANGED << input_exists, csv_file, all_rows, i, sql_statements, count,
                    errors, output_file, writes, call >>

\* __main__: the input file exists, generate_insert_sql is called
main_call ==
    /\ pc = "main"
    /\ input_exists
    /\ pc' = "open"
    /\ UNCHANGED << input_exists, csv_file, all_rows, i, sql_statements, count,
                    errors, output_file, writes, exit_code, call >>

\* generate_insert_sql: next(reader) on a file without a line raises
\* StopIteration, which nothing catches
read_no_header ==
    /\ pc = "open"
    /\ csv_file = <<>>
    /\ pc' = "crashed"
    /\ exit_code' = 1
    /\ UNCHANGED << input_exists, csv_file, all_rows, i, sql_statements, count,
                    errors, output_file, writes, call >>

\* generate_insert_sql: the header is skipped, the rows are read and
\* reversed, the preamble is appended
read_rows ==
    /\ pc = "open"
    /\ csv_file # <<>>
    /\ all_rows' = reverse(Tail(csv_file))
    /\ sql_statements' = Preamble
    /\ count' = 0
    /\ i' = 1
    /\ pc' = "loop"
    /\ UNCHANGED << input_exists, csv_file, errors, output_file, writes,
                    exit_code, call >>

\* the loop: a row with fewer than 11 fields
loop_skip ==
    /\ pc = "loop"
    /\ i <= Len(all_rows)
    /\ too_short(all_rows[i])
    /\ i' = i + 1
    /\ UNCHANGED << pc, input_exists, csv_file, all_rows, sql_statements, count,
                    errors, output_file, writes, exit_code, call >>

\* the loop: the try block and its handler
loop_try ==
    /\ pc = "loop"
    /\ i <= Len(all_rows)
    /\ ~too_short(all_rows[i])
    /\ LET r == try_body(all_rows[i])
       IN  IF r.raised
           THEN /\ errors' = errors + 1
                /\ UNCHANGED << sql_statements, count >>
           ELSE /\ sql_statements' = Append(sql_statements, r.stmt)
                /\ count' = increment(count)
                /\ UNCHANGED errors
    /\ i' = i + 1
    /\ UNCHANGED << pc, input_exists, csv_file, all_rows, output_file, writes,
                    exit_code, call >>

\* after the loop: the trailing lines, and the output file written
finish ==
    /\ pc = "loop"
    /\ i > Len(all_rows)
    /\ LET lines == sql_statements \o <<Line("blank", ""), Total(count)>>
       IN  /\ sql_statements' = lines
           /\ output_file' = [exists |-> TRUE, lines |-> lines]
    /\ writes' = writes + 1
    /\ pc' = "done"
    /\ exit_code' = 0
    /\ UNCHANGED << input_exists, csv_file, all_rows, i, count, errors, call >>

Next ==
    \/ main_missing_input
    \/ main_call
    \/ read_no_header
    \/ read_rows
    \/ loop_skip
    \/ loop_try
    \/ finish

Spec == Init /\ [][Next]_vars

(***************************************************************************)
(* parse_integer and escape_sql_string called on their own.                *)
(***************************************************************************)
InitPure ==
    /\ Idle
    /\ input_exists = FALSE
    /\ csv_file = <<>>
    /\ call \in {[NoCall EXCEPT !.fn = f, !.arg = a] :
                    f \in {"parse_integer", "escape_sql_string"},
                    a \in Arguments}

call_parse_integer ==
    /\ call.fn = "parse_integer"
    /\ ~call.done
    /\ LET r == parse_integer(call.arg)
       IN  call' = [call EXCEPT !.done = TRUE, !.ret = r,
                                !.text = IF r.raised THEN <<>> ELSE format(r)]
    /\ UNCHANGED << pc, input_exists, csv_file, all_rows, i, sql_statements,
                    count, errors, output_file, writes, exit_code >>

call_escape_sql_string ==
    /\ call.fn = "escape_sql_string"
    /\ ~call.done
    /\ call' = [call EXCEPT !.done = TRUE,
                            !.text = escape_sql_string(call.arg)]
    /\ UNCHANGED << pc, input_exists, csv_file, all_rows, i, sql_statements,
                    count, errors, output_file, writes, exit_code >>

NextPure ==
    \/ call_parse_integer
    \/ call_escape_sql_string

SpecPure == InitPure /\ [][NextPure]_vars

(***************************************************************************)
(* Vocabulary of the properties.                                           *)
(***************************************************************************)
IsInsert(e) == e.kind = "insert"

\* the INSERT statements among lines, in order
Inserts(lines) == SelectSeq(lines, IsInsert)

HasMinFields(row) == Len(row) >= 11

\* the data rows of the input in file order: every line but the header
DataRows == IF csv_file = <<>> THEN <<>> ELSE Tail(csv_file)

\* the rows the loop is done with, in the order it took them
Processed == SubSeq(all_rows, 1, i - 1)

Quoted(text) == <<"'">> \o text \o <<"'">>

Occurrences(c, text) == Cardinality({k \in 1..Len(text) : text[k] = c})

Least(S) == CHOOSE x \in S : \A y \in S : x <= y

Greatest(S) == CHOOSE x \in S : \A y \in S : x >= y

\* text without the whitespace around it, by the places of its first and
\* last character that is not whitespace
Trimmed(text) ==
    LET solid == {k \in 1..Len(text) : text[k] \notin Whitespace}
    IN  IF solid = {} THEN <<>>
        ELSE SubSeq(text, Least(solid), Greatest(solid))

Unsigned(t) == IF t # <<>> /\ t[1] \in {"+", "-"} THEN Tail(t) ELSE t

\* t is an integer literal: an optional sign, then digits, with single
\* underscores allowed between digits
IsLiteral(t) ==
    LET b == Unsigned(t)
    IN  /\ b # <<>>
        /\ \A k \in 1..Len(b) : b[k] \in Digits \cup {"_"}
        /\ b[1] # "_"
        /\ b[Len(b)] # "_"
        /\ \A k \in 1..(Len(b) - 1) : ~(b[k] = "_" /\ b[k + 1] = "_")

IsDigit(c) == c \in Digits

RECURSIVE Power10(_)
Power10(n) == IF n = 0 THEN 1 ELSE 10 * Power10(n - 1)

RECURSIVE PlaceSum(_, _)
PlaceSum(ds, k) ==
    IF k > Len(ds) THEN 0
    ELSE DigitVal(ds[k]) * Power10(Len(ds) - k) + PlaceSum(ds, k + 1)

\* the integer a literal denotes: the sum of its digits by place value
LiteralValue(t) ==
    LET n == PlaceSum(SelectSeq(Unsigned(t), IsDigit), 1)
    IN  IF t[1] = "-" THEN 0 - n ELSE n

(***************************************************************************)
(* C1.  A data row with at least 11 fields produces exactly one INSERT     *)
(* statement: the step of the loop that takes such a row appends one       *)
(* statement to the accumulator, an INSERT, leaves what was there, and     *)
(* reports no failure.                                                     *)
(***************************************************************************)
C1_OneInsertPerRow ==
    [][ (pc = "loop" /\ i <= Len(all_rows) /\ HasMinFields(all_rows[i]))
        => /\ Len(sql_statements') = Len(sql_statements) + 1
           /\ SubSeq(sql_statements', 1, Len(sql_statements)) = sql_statements
           /\ IsInsert(sql_statements'[Len(sql_statements')])
           /\ errors' = errors
           /\ i' = i + 1 ]_vars

\* a row of twelve fields with a draw that is no number has been converted
C1_Witness ==
    /\ pc = "loop"
    /\ i = 2
    /\ Len(all_rows[1]) = 12
    /\ all_rows[1][1] = <<"x">>
    /\ Len(sql_statements) = Len(Preamble) + 1
    /\ IsInsert(sql_statements[Len(sql_statements)])

(***************************************************************************)
(* C2.  A data row with fewer than 11 fields is skipped: the step of the   *)
(* loop that takes it leaves the accumulator and the counter alone,        *)
(* reports no failure, and the loop goes on to the next row.               *)
(***************************************************************************)
C2_ShortRowSkipped ==
    [][ (pc = "loop" /\ i <= Len(all_rows) /\ ~HasMinFields(all_rows[i]))
        => /\ sql_statements' = sql_statements
           /\ count' = count
           /\ errors' = errors
           /\ i' = i + 1
           /\ pc' = "loop" ]_vars

\* a row of ten fields has been passed over, and a row follows it
C2_Witness ==
    /\ pc = "loop"
    /\ i = 2
    /\ Len(all_rows) >= 2
    /\ Len(all_rows[1]) = 10
    /\ sql_statements = Preamble
    /\ count = 0
    /\ errors = 0

(***************************************************************************)
(* C3.  As claimed: every INSERT statement has exactly 20 values and 20    *)
(* column names.                                                           *)
(***************************************************************************)
C3_Original ==
    \A k \in 1..Len(sql_statements) :
        IsInsert(sql_statements[k])
        => /\ Len(sql_statements[k].values) = 20
           /\ Len(sql_statements[k].columns) = 20

(***************************************************************************)
(* C3, amended.  Every INSERT statement has exactly 21 values and 21       *)
(* column names, whatever the length of its row.                           *)
(***************************************************************************)
C3_TwentyOneValues ==
    \A k \in 1..Len(sql_statements) :
        IsInsert(sql_statements[k])
        => /\ Len(sql_statements[k].values) = 21
           /\ Len(sql_statements[k].columns) = 21

\* a row with more fields than the schema has been converted and written
C3_Witness ==
    /\ pc = "done"
    /\ Len(all_rows) = 1
    /\ Len(all_rows[1]) > 21
    /\ Len(Inserts(output_file.lines)) = 1

(***************************************************************************)
(* C4.  The statements of the output are in the reverse of the order of    *)
(* their rows in the CSV: the k-th statement is the statement of the k-th  *)
(* from last of the data rows with at least 11 fields.  Hence when those   *)
(* rows come in descending draw number, the statements come in ascending   *)
(* draw number.                                                            *)
(***************************************************************************)
DrawOfRow(row) == parse_integer(Str(row[1]))

DrawOfStatement(e) == int(e.values[1])

Descending(rows) ==
    /\ \A k \in 1..Len(rows) : ~DrawOfRow(rows[k]).null
    /\ \A k \in 1..(Len(rows) - 1) :
          DrawOfRow(rows[k]).int > DrawOfRow(rows[k + 1]).int

C4_ReverseOrder ==
    pc = "done"
    => LET Q   == SelectSeq(DataRows, HasMinFields)
           Ins == Inserts(output_file.lines)
       IN  /\ Len(Ins) = Len(Q)
           /\ \A k \in 1..Len(Q) :
                 Ins[k].values = try_body(Q[Len(Q) - k + 1]).stmt.values
           /\ Descending(Q)
              => /\ \A k \in 1..Len(Ins) : ~DrawOfStatement(Ins[k]).raised
                 /\ \A k \in 1..(Len(Ins) - 1) :
                       DrawOfStatement(Ins[k]).val
                       < DrawOfStatement(Ins[k + 1]).val

\* draws 7 and 5 with a skipped row between them have been written
C4_Witness ==
    /\ pc = "done"
    /\ Len(DataRows) = 3
    /\ DataRows[1] = With(ExampleRow, 0, <<"7">>)
    /\ ~HasMinFields(DataRows[2])
    /\ DataRows[3] = ExampleRow
    /\ Len(Inserts(output_file.lines)) = 2

(***************************************************************************)
(* C5.  The values of a statement by the field they come from.  Field j    *)
(* of the table is Python's row[j - 1].                                    *)
(***************************************************************************)
IntegerOf(row, j) == format(parse_integer(Str(row[j])))

\* the values of the end-to-end example
ExampleValues ==
    << <<"5">>,
       <<"'", "2", "0", "2", "0", "-", "0", "1", "-", "1", "5", "'">>,
       <<"1">>, <<"2">>, <<"3">>, <<"4">>, <<"5">>, <<"6">>, <<"7">>,
       <<"8">>, <<"9">>,
       <<"'", "3", ",", "1", ",", "2", "'">>,
       <<"2">>, <<"3">>, <<"4">>, <<"3">>, <<"1">>, <<"2">>, <<"1">>,
       <<"1">>, <<"2">> >>

\* as claimed: field 1 in single quotes; field 11 with its double quotes
\* stripped, in single quotes; the fields from 11 on NULL when absent
ClaimedValues(row) ==
    [j \in 1..21 |->
        IF j = 2 THEN Quoted(row[2])
        ELSE IF j <= 11 THEN IntegerOf(row, j)
        ELSE IF Len(row) < j THEN NULL
        ELSE IF j = 12 THEN Quoted(replace(row[12], "\"", <<>>))
        ELSE IntegerOf(row, j)]

\* amended: field 1 is NULL when it is empty or reads NULL; field 11 is
\* also trimmed and has its single quotes doubled, and is NULL when nothing
\* is left of it
AmendedValues(row) ==
    [j \in 1..21 |->
        IF j = 2
        THEN (IF row[2] = <<>> \/ row[2] = NULL THEN NULL ELSE Quoted(row[2]))
        ELSE IF j <= 11 THEN IntegerOf(row, j)
        ELSE IF Len(row) < j THEN NULL
        ELSE IF j = 12
        THEN (LET t == Trimmed(replace(row[12], "\"", <<>>))
              IN  IF t = <<>> THEN NULL
                  ELSE Quoted(replace(t, "'", <<"'", "'">>)))
        ELSE IntegerOf(row, j)]

\* the statements so far are those of the rows so far with at least 11
\* fields, each with the values Values gives for its row
MappedBy(Values(_)) ==
    pc \in {"loop", "done"}
    => LET Q   == SelectSeq(Processed, HasMinFields)
           Ins == Inserts(sql_statements)
       IN  /\ Len(Ins) = Len(Q)
           /\ \A k \in 1..Len(Q) :
                 /\ Ins[k].values = Values(Q[k])
                 /\ Q[k] = ExampleRow => Ins[k].values = ExampleValues

(***************************************************************************)
(* C5, as claimed: draw, draw_date in quotes, the seven winning numbers    *)
(* from fields 2 to 8 in order, the bonus numbers, from_last with double   *)
(* quotes stripped and quoted, the nine counters; absent fields NULL.      *)
(***************************************************************************)
C5_Original == MappedBy(ClaimedValues)

(***************************************************************************)
(* C5, amended: as claimed, except that draw_date is NULL when field 1 is  *)
(* empty or is the text NULL, and that from_last is field 11 with double   *)
(* quotes stripped, then trimmed, then its single quotes doubled, in       *)
(* single quotes, and NULL when field 11 is absent or nothing is left.     *)
(***************************************************************************)
C5_FieldMapping == MappedBy(AmendedValues)

\* a full row with an empty date has been converted: the date is NULL, the
\* sixth and seventh winning numbers come from fields 7 and 8
C5_Witness ==
    /\ pc = "done"
    /\ all_rows = <<With(ExampleRow, 1, <<>>)>>
    /\ Len(Inserts(sql_statements)) = 1
    /\ Inserts(sql_statements)[1].values[2] = NULL
    /\ Inserts(sql_statements)[1].values[8] = <<"6">>
    /\ Inserts(sql_statements)[1].values[9] = <<"7">>

(***************************************************************************)
(* C6.  parse_integer never raises; it returns the NULL marker for an      *)
(* absent value and for a text that is empty, all whitespace, or not an    *)
(* integer literal once trimmed; for an integer literal with whitespace    *)
(* around it, it returns the integer the literal denotes.                  *)
(***************************************************************************)
C6_ParseIntegerTotal ==
    (call.fn = "parse_integer" /\ call.done)
    => /\ ~call.ret.raised
       /\ IF call.arg.none \/ ~IsLiteral(Trimmed(call.arg.s))
          THEN call.ret.null /\ call.text = NULL
          ELSE /\ ~call.ret.null
               /\ call.ret.int = LiteralValue(Trimmed(call.arg.s))

\* an integer with whitespace on both sides has been parsed
C6_Witness ==
    /\ call.fn = "parse_integer"
    /\ call.done
    /\ call.arg = Str(<<" ", "1", "2", " ">>)
    /\ call.ret = IntOf(12)

(***************************************************************************)
(* C7.  escape_sql_string returns the NULL marker exactly when its         *)
(* argument is absent or empty; otherwise a text that begins and ends with *)
(* a single quote, in which every single quote of the argument is doubled  *)
(* and the other characters but the double quotes are kept in order.  No   *)
(* double quote is in the result.                                          *)
(***************************************************************************)
NotSingleQuote(c) == c # "'"

NoQuote(c) == c \notin {"'", "\""}

C7_EscapeSqlString ==
    (call.fn = "escape_sql_string" /\ call.done)
    => LET out == call.text
           arg == call.arg
       IN  /\ (out = NULL) <=> (arg.none \/ arg.s = <<>>)
           /\ out # NULL
              => /\ Len(out) >= 2
                 /\ out[1] = "'"
                 /\ out[Len(out)] = "'"
                 /\ Occurrences("'", out) = 2 + 2 * Occurrences("'", arg.s)
                 /\ \A k \in 2..(Len(out) - 1) :
                       out[k] = "'" => (out[k - 1] = "'" \/ out[k + 1] = "'")
                 /\ SelectSeq(out, NotSingleQuote) = SelectSeq(arg.s, NoQuote)
           /\ \A k \in 1..Len(out) : out[k] # "\""

\* a text with a single and a double quote has been escaped
C7_Witness ==
    /\ call.fn = "escape_sql_string"
    /\ call.done
    /\ call.arg = Str(<<"a", "'", "\"", "1">>)
    /\ call.text = <<"'", "a", "'", "'", "1", "'">>

(***************************************************************************)
(* C8.  As claimed: without the input file the script ends with exit code  *)
(* 1 before any processing (no row read, no statement, no output file);    *)
(* with the input file, the output file is written exactly once, after     *)
(* all rows have been processed.                                           *)
(***************************************************************************)
Ended == pc \in {"exited", "crashed", "done"}

C8_Original ==
    /\ ~input_exists
       => /\ pc \in {"main", "exited"}
          /\ all_rows = <<>> /\ sql_statements = <<>> /\ i = 0
          /\ writes = 0 /\ ~output_file.exists
          /\ Ended => exit_code = 1
    /\ input_exists
       => /\ writes <= 1
          /\ writes = 1 => (pc = "done" /\ i > Len(all_rows))
          /\ Ended => (writes = 1 /\ output_file.exists)

(***************************************************************************)
(* C9.  The counter is the number of INSERT statements of the accumulator  *)
(* after every iteration.  The file written holds the preamble with the    *)
(* USE statement, then the INSERT statements, then the trailing comment;   *)
(* its count is the number of INSERT statements of the file, which is the  *)
(* number of data rows with at least 11 fields.                            *)
(***************************************************************************)
C9_CountAndLayout ==
    /\ pc = "loop" => count = Len(Inserts(sql_statements))
    /\ pc = "done"
       => LET L == output_file.lines
              n == Len(L)
              p == Len(Preamble)
          IN  /\ n >= p + 2
              /\ \A k \in 1..3 : L[k].kind = "comment"
              /\ L[5] = Line("use", "USE cool;")
              /\ \A k \in 1..p : ~IsInsert(L[k])
              /\ \A k \in (p + 1)..(n - 2) : IsInsert(L[k])
              /\ L[n - 1].kind = "blank"
              /\ L[n].kind = "total"
              /\ L[n].values = <<IntText(count)>>
              /\ count = Len(Inserts(L))
              /\ count = Cardinality({k \in 1..Len(DataRows) :
                                         HasMinFields(DataRows[k])})

\* a file of three data rows, one of them too short, has been written
C9_Witness ==
    /\ pc = "done"
    /\ Len(DataRows) = 3
    /\ ~HasMinFields(DataRows[2])
    /\ count = 2
    /\ output_file.exists
    /\ output_file.lines[Len(output_file.lines)].values = <<<<"2">>>>

(***************************************************************************)
(* C10.  As claimed: the draw value of every INSERT statement is an        *)
(* integer, never the NULL marker.                                         *)
(***************************************************************************)
C10_Original ==
    \A k \in 1..Len(sql_statements) :
        IsInsert(sql_statements[k])
        => /\ sql_statements[k].values[1] # NULL
           /\ ~int(sql_statements[k].values[1]).raised

=============================================================================
